---- MODULE Spec2Model ----
(***************************************************************************)
(* Observable managed attributes (src/src/observable_properties.py).       *)
(*                                                                         *)
(* The model is an interpreter of the library's call structure.  A call    *)
(* made from outside any callback (a "top-level call") or from a running   *)
(* callback is one action; the notification loop of __execute_callbacks    *)
(* is a frame on `stack` that advances one subscriber per step, because    *)
(* the callbacks it invokes are user code that may call the library again  *)
(* before the loop goes on.                                                *)
(*                                                                         *)
(* The owner class is user code: a class T deriving from Observable with  *)
(* the observable attributes x (getter, setter and deleter over a backing  *)
(* field) and y (getter and setter only), and a subclass S of T that       *)
(* declares nothing.  "z" is a name no class declares.                     *)
(***************************************************************************)
EXTENDS Integers, Sequences, FiniteSets, TLC

\* ---------------------------------------------------------------- universe

\* Callback operations allowed within one top-level call (a model bound).
MaxOps == 2

Callbacks == {"f", "g"}
Values == {"v1", "v2"}
NoValue == "absent"     \* the backing field does not exist

\* Instances and the class of each.
Instances == {"a", "b", "s"}
ClassOf(i) == IF i = "s" THEN "S" ELSE "T"

VARIABLES
    subscribers,   \* [name -> list]: the class attribute __<name>_subscribers
    recursions,    \* [name -> list]: the class attribute __<name>_recursions
    value,         \* [instance -> [name -> value]]: the backing fields
    stack,         \* active frames: notification loops and running callbacks
    exc,           \* the exception in flight (or that ended the call)
    call,          \* the top-level call in progress or just finished
    result,        \* its outcome
    pre,           \* subscribers, recursions and value when it started
    log,           \* the callback invocations it made, in order
    nops,          \* the number of calls its callbacks made
    touched,       \* the observable names those calls were made on
    block,         \* the `with instance._observable(name)` block being executed
    limit          \* the bound on nops in the specification at hand

vars == <<subscribers, recursions, value, stack, exc, call, result, pre, log, nops,
          touched, block, limit>>

\* ------------------------------------------------------------ the owner class

\* The names declared with @observable in class T.
Observables == {"x", "y"}

\* vars(cls): the observable descriptors in the class's own namespace.
OwnVars(cls) == IF cls = "T" THEN Observables ELSE {}

\* The attributes declared with a deleter (property.fdel is not None).
HasDeleter(n) == n = "x"

\* hasattr(instance, "__<name>_subscribers"): __set_name__ stores both lists
\* on the owner class, so the lookup succeeds for every instance of T and of
\* its subclasses, and no instance has an entry of its own in its __dict__.
hasattr_subscribers(i, n) == n \in Observables

\* getattr(instance, "__<name>_subscribers") and getattr(instance,
\* "__<name>_recursions"): the class attributes, whatever the instance.
SubscribersOf(subs, i, n) == subs[n]

\* Variant of RecursionsOf: one guard for all the observables of the class.
RecursionsOf_class(recs, i, n) == recs["x"]

RecursionsOf(recs, i, n) == recs[n]

\* ------------------------------------------------------------------- lists

\* callback in list
Contains(list, cb) == \E k \in 1..Len(list) : list[k] = cb

\* list.remove(cb): drops the first entry equal to cb.
ListRemove(list, cb) ==
    LET k == CHOOSE j \in 1..Len(list) :
                 list[j] = cb /\ \A h \in 1..(j - 1) : list[h] # cb
    IN  [h \in 1..(Len(list) - 1) |-> IF h < k THEN list[h] ELSE list[h + 1]]

\* list.append(cb)
ListAppend(list, cb) == Append(list, cb)

\* list.clear()
ListClear(list) == <<>>

\* ------------------------------------------------------------ exceptions

NoExc == [type |-> "none", observer |-> "-", name |-> "-"]

\* ObservablePropertyError of __execute_callbacks: names observer.__name__
\* and the property.
RecursionError(observer, n) ==
    [type |-> "ObservablePropertyError", observer |-> observer, name |-> n]

\* Variant of NotObservableError: getattr's own AttributeError gets out.
NotObservableError_attribute(n) ==
    [type |-> "AttributeError", observer |-> "-", name |-> n]

\* ObservablePropertyError of unsubscribe and _observable_notify: "'<name>'
\* is not an observable property of '<class>'".
NotObservableError(n) ==
    [type |-> "ObservablePropertyError", observer |-> "-", name |-> n]

\* AttributeError of property.__delete__, delattr or the getter.
AttributeError(n) == [type |-> "AttributeError", observer |-> "-", name |-> n]

\* An exception of the callback's own.
CallbackError(cb) == [type |-> "CallbackError", observer |-> cb, name |-> "-"]

\* --------------------------------------------------------------- bookkeeping

NoCall == [op |-> "none", cb |-> "-", inst |-> "-", name |-> "-", val |-> "-"]
Call(op, cb, i, n, v) == [op |-> op, cb |-> cb, inst |-> i, name |-> n, val |-> v]

Snapshot == [subscribers |-> subscribers, recursions |-> recursions, value |-> value]
NoSnapshot ==
    [subscribers |-> [n \in Observables |-> <<>>],
     recursions  |-> [n \in Observables |-> <<>>],
     value       |-> [i \in Instances |-> [n \in Observables |-> NoValue]]]

\* No with block is being executed.
NoBlock == [inst |-> "-", name |-> "-"]

\* A frame of the call stack: a notification loop ("cycle": the for statement
\* of __execute_callbacks, idx entries consumed) or a running callback ("cb").
\* op tells the loop of __set__ ("set") from that of _run_observers ("notify").
CycleFrame(op, i, n, v) ==
    [kind |-> "cycle", op |-> op, cb |-> "-", inst |-> i, name |-> n, val |-> v,
     idx |-> 0]
CallbackFrame(cb, i, n, v) ==
    [kind |-> "cb", op |-> "-", cb |-> cb, inst |-> i, name |-> n, val |-> v,
     idx |-> 0]

Top == stack[Len(stack)]
Pop(st) == SubSeq(st, 1, Len(st) - 1)

\* The caller: code outside any callback, or the callback on top of the stack
\* (which has no exception to deal with and has operations left).
Outside == stack = <<>> /\ call = NoCall
Inside == stack # <<>> /\ Top.kind = "cb" /\ exc = NoExc /\ nops < limit
CanCall == Outside \/ Inside

\* The call c is over at once: it returned r, or raised e.
Completed(c, r, e) ==
    IF stack = <<>>
    THEN /\ call' = c
         /\ result' = IF e = NoExc THEN r ELSE "raised"
         /\ exc' = e
         /\ pre' = Snapshot
         /\ log' = <<>>
         /\ nops' = 0
         /\ touched' = {}
         /\ stack' = stack
    ELSE /\ exc' = e
         /\ nops' = nops + 1
         /\ touched' = touched \cup ({c.name} \cap Observables)
         /\ UNCHANGED <<call, result, pre, log, stack>>

\* The call c enters the notification loop of frame fr.
Started(c, fr) ==
    /\ stack' = Append(stack, fr)
    /\ exc' = NoExc
    /\ IF stack = <<>>
       THEN /\ call' = c
            /\ result' = "running"
            /\ pre' = Snapshot
            /\ log' = <<>>
            /\ nops' = 0
            /\ touched' = {}
       ELSE /\ nops' = nops + 1
            /\ touched' = touched \cup ({c.name} \cap Observables)
            /\ UNCHANGED <<call, result, pre, log>>

\* The frames st are what is left after a frame ended with exception e (NoExc:
\* it returned): with none left, the top-level call is over.
Outcome(st, e) ==
    IF st = <<>> THEN (IF e = NoExc THEN "None" ELSE "raised") ELSE result

\* ------------------------------------------------------- subscribe, unsubscribe

\* unsubscribe's effect on the list: `if callback in subscribers:
\* subscribers.remove(callback)`.
Unsubscribed(list, cb) ==
    IF Contains(list, cb) THEN ListRemove(list, cb) ELSE list

\* Variant of UnsubscribeReturn: true whenever the attribute is observable.
UnsubscribeReturn_always(list, cb) == "True"

\* unsubscribe's return value.
UnsubscribeReturn(list, cb) == IF Contains(list, cb) THEN "True" ELSE "False"

\* Variant of Subscribed: a callback that is in the list stays where it is.
Subscribed_inplace(list, cb) ==
    IF Contains(list, cb) THEN list ELSE ListAppend(list, cb)

\* Variant of Subscribed: append without the unsubscribe before it.
Subscribed_appended(list, cb) == ListAppend(list, cb)

\* subscribe's effect on the list: unsubscribe(callback, ...), then
\* subscribers.append(callback).
Subscribed(list, cb) == ListAppend(Unsubscribed(list, cb), cb)

unsubscribe(cb, i, n) ==
    /\ UNCHANGED <<block, limit>>
    /\ CanCall
    /\ IF hasattr_subscribers(i, n)
       THEN /\ subscribers' = [subscribers EXCEPT ![n] = Unsubscribed(@, cb)]
            /\ Completed(Call("unsubscribe", cb, i, n, "-"),
                         UnsubscribeReturn(subscribers[n], cb), NoExc)
       ELSE /\ UNCHANGED subscribers
            /\ Completed(Call("unsubscribe", cb, i, n, "-"), "None",
                         NotObservableError(n))
    /\ UNCHANGED <<recursions, value>>

\* subscribe calls unsubscribe first, whose ObservablePropertyError it lets
\* through.
subscribe(cb, i, n) ==
    /\ UNCHANGED <<block, limit>>
    /\ CanCall
    /\ IF hasattr_subscribers(i, n)
       THEN /\ subscribers' = [subscribers EXCEPT ![n] = Subscribed(@, cb)]
            /\ Completed(Call("subscribe", cb, i, n, "-"), "None", NoExc)
       ELSE /\ UNCHANGED subscribers
            /\ Completed(Call("subscribe", cb, i, n, "-"), "None",
                         NotObservableError(n))
    /\ UNCHANGED <<recursions, value>>

\* ------------------------------------------------ assignment, notify, delete

\* Variant of Stored: the setter is not called.
Stored_dropped(old, v) == old

\* super().__set__(instance, value): the setter writes the backing field.
Stored(old, v) == v

\* observable.__set__: the value is stored, then the loop is entered.
set(i, n, v) ==
    /\ UNCHANGED <<block, limit>>
    /\ CanCall
    /\ n \in Observables
    /\ value' = [value EXCEPT ![i][n] = Stored(@, v)]
    /\ Started(Call("set", "-", i, n, v), CycleFrame("set", i, n, v))
    /\ UNCHANGED <<subscribers, recursions>>

\* `(property_name in vrs) and isinstance(vrs[property_name], observable)` with
\* vrs = vars(self.__class__).
IsOwnObservable(i, n) == n \in OwnVars(ClassOf(i))

\* Variant of NotifyValue: the value the attribute was constructed with.
NotifyValue_initial(i, n) == "v1"

\* getattr(self, property_name): the getter reads the backing field.
NotifyValue(i, n) == value[i][n]

\* Observable._observable_notify, made as the call c: the getter raises
\* AttributeError when the backing field is gone; otherwise _run_observers
\* enters the loop with the current value.
Notified(c, i, n) ==
    IF IsOwnObservable(i, n)
    THEN IF value[i][n] = NoValue
         THEN Completed(c, "None", AttributeError(n))
         ELSE Started(c, CycleFrame("notify", i, n, NotifyValue(i, n)))
    ELSE Completed(c, "None", NotObservableError(n))

observable_notify(i, n) ==
    /\ UNCHANGED <<block, limit>>
    /\ CanCall
    /\ Notified(Call("notify", "-", i, n, "-"), i, n)
    /\ UNCHANGED <<subscribers, recursions, value>>

\* What the body of a with block raised.
BodyError == [type |-> "BodyError", observer |-> "-", name |-> "-"]

\* Variant of ResumesAfterYield: the statement after the yield is in a
\* finally clause.
ResumesAfterYield_finally(ok) == TRUE

\* `yield` in Observable._observable: when the body ends normally (ok) the
\* context manager resumes the generator, which goes on to the next
\* statement; when the body raises, the exception is thrown into the
\* generator at the yield and leaves it at once.
ResumesAfterYield(ok) == ok

\* Entering `with instance._observable(name)`: the generator runs up to its
\* yield, which is its first statement.  Blocks are entered by code outside
\* the callbacks, one at a time.
observable_enter(i, n) ==
    /\ Outside
    /\ block = NoBlock
    /\ block' = [inst |-> i, name |-> n]
    /\ Completed(Call("enter", "-", i, n, "-"), "None", NoExc)
    /\ UNCHANGED <<subscribers, recursions, value, limit>>

\* Leaving the with block, its body having ended normally (ok) or with an
\* error: `self._observable_notify(property_name)` is the statement after
\* the yield.
observable_exit(ok) ==
    /\ Outside
    /\ block # NoBlock
    /\ block' = NoBlock
    /\ IF ResumesAfterYield(ok)
       THEN Notified(Call(IF ok THEN "leave" ELSE "abort", "-", block.inst,
                          block.name, "-"), block.inst, block.name)
       ELSE Completed(Call("abort", "-", block.inst, block.name, "-"), "None",
                      BodyError)
    /\ UNCHANGED <<subscribers, recursions, value, limit>>

\* observable.__delete__: super().__delete__ raises AttributeError without a
\* deleter, and so does the deleter when the backing field is gone; otherwise
\* the field is removed.  Then delattr(instance, "__<name>_subscribers")
\* raises AttributeError: the list is an attribute of the class, not of the
\* instance, whose __dict__ never holds it.
delete(i, n) ==
    /\ UNCHANGED <<block, limit>>
    /\ CanCall
    /\ n \in Observables
    /\ value' = IF HasDeleter(n) /\ value[i][n] # NoValue
                THEN [value EXCEPT ![i][n] = NoValue]
                ELSE value
    /\ Completed(Call("delete", "-", i, n, "-"), "None", AttributeError(n))
    /\ UNCHANGED <<subscribers, recursions>>

\* ---------------------------------------------------- the notification loop

InLoop == stack # <<>> /\ Top.kind = "cycle" /\ exc = NoExc

\* `for observer in subscribers`: the list iterator reads the live list at
\* its index.
HasNext(list, idx) == idx < Len(list)

\* Variant of NextObserver: the list is walked from its end.
NextObserver_reversed(list, idx) == list[Len(list) - idx]

NextObserver(list, idx) == list[idx + 1]

\* `observer not in recursions`
Admitted(guard, observer) == ~Contains(guard, observer)

\* Variant of Cleared: no finally clause, the guard is left as it is.
Cleared_kept(guard) == guard

\* `finally: recursions.clear()`
Cleared(guard) == ListClear(guard)

\* recursions.append(observer); observer(instance, name, value)
invoke_observer ==
    /\ UNCHANGED <<block, limit>>
    /\ InLoop
    /\ HasNext(SubscribersOf(subscribers, Top.inst, Top.name), Top.idx)
    /\ LET fr == Top
           observer == NextObserver(SubscribersOf(subscribers, fr.inst, fr.name), fr.idx)
       IN  /\ Admitted(RecursionsOf(recursions, fr.inst, fr.name), observer)
           /\ recursions' = [recursions EXCEPT ![fr.name] = ListAppend(@, observer)]
           /\ stack' = Append([stack EXCEPT ![Len(stack)].idx = fr.idx + 1],
                              CallbackFrame(observer, fr.inst, fr.name, fr.val))
           /\ log' = Append(log, <<observer, fr.inst, fr.name, fr.val>>)
    /\ UNCHANGED <<subscribers, value, exc, call, result, pre, nops, touched>>

\* The observer is in the guard: ObservablePropertyError, which leaves
\* __set__ / _run_observers through `finally: recursions.clear()`.
reject_observer ==
    /\ UNCHANGED <<block, limit>>
    /\ InLoop
    /\ HasNext(SubscribersOf(subscribers, Top.inst, Top.name), Top.idx)
    /\ LET fr == Top
           observer == NextObserver(SubscribersOf(subscribers, fr.inst, fr.name), fr.idx)
       IN  /\ ~Admitted(RecursionsOf(recursions, fr.inst, fr.name), observer)
           /\ recursions' = [recursions EXCEPT ![fr.name] = Cleared(@)]
           /\ stack' = Pop(stack)
           /\ exc' = RecursionError(observer, fr.name)
           /\ result' = Outcome(Pop(stack), RecursionError(observer, fr.name))
    /\ UNCHANGED <<subscribers, value, call, pre, log, nops, touched>>

\* The loop is exhausted: __set__ / _run_observers returns through
\* `finally: recursions.clear()`.
end_of_loop ==
    /\ UNCHANGED <<block, limit>>
    /\ InLoop
    /\ ~HasNext(SubscribersOf(subscribers, Top.inst, Top.name), Top.idx)
    /\ recursions' = [recursions EXCEPT ![Top.name] = Cleared(@)]
    /\ stack' = Pop(stack)
    /\ result' = Outcome(Pop(stack), NoExc)
    /\ UNCHANGED <<subscribers, value, exc, call, pre, log, nops, touched>>

\* ------------------------------------------------------------ the callbacks

Running == stack # <<>> /\ Top.kind = "cb"

\* An exception e leaves the running callback: it passes the loop that
\* invoked it (the frame below), whose finally clause clears the guard, and
\* reaches the caller of that __set__ / _run_observers.
Leaves(e) ==
    /\ recursions' = [recursions EXCEPT ![stack[Len(stack) - 1].name] = Cleared(@)]
    /\ stack' = Pop(Pop(stack))
    /\ exc' = e
    /\ result' = Outcome(Pop(Pop(stack)), e)
    /\ UNCHANGED <<subscribers, value, call, pre, log, nops, touched>>

callback_returns ==
    /\ UNCHANGED <<block, limit>>
    /\ Running
    /\ exc = NoExc
    /\ stack' = Pop(stack)
    /\ UNCHANGED <<subscribers, recursions, value, exc, call, result, pre, log, nops,
                   touched>>

\* The callback fails with an exception of its own.
callback_raises ==
    /\ UNCHANGED <<block, limit>>
    /\ Running
    /\ exc = NoExc
    /\ Leaves(CallbackError(Top.cb))

\* A call the callback made raised, and the callback has no handler for it.
callback_propagates ==
    /\ UNCHANGED <<block, limit>>
    /\ Running
    /\ exc # NoExc
    /\ Leaves(exc)

\* A call the callback made raised, and the callback handles it (try/except).
callback_handles ==
    /\ UNCHANGED <<block, limit>>
    /\ Running
    /\ exc # NoExc
    /\ exc' = NoExc
    /\ UNCHANGED <<subscribers, recursions, value, stack, call, result, pre, log, nops,
                   touched>>

\* The top-level call is over and its caller goes on.
returns ==
    /\ UNCHANGED <<block, limit>>
    /\ stack = <<>>
    /\ call # NoCall
    /\ result # "running"
    /\ call' = NoCall
    /\ result' = "idle"
    /\ exc' = NoExc
    /\ pre' = NoSnapshot
    /\ log' = <<>>
    /\ nops' = 0
    /\ touched' = {}
    /\ UNCHANGED <<subscribers, recursions, value, stack>>

\* ------------------------------------------------------------ specification

\* After class creation (__set_name__ has stored two empty lists per
\* observable on the class) and the construction of the instances, whose
\* __init__ sets the backing fields.
Init ==
    /\ subscribers = [n \in Observables |-> <<>>]
    /\ recursions = [n \in Observables |-> <<>>]
    /\ value = [i \in Instances |-> [n \in Observables |-> "v1"]]
    /\ stack = <<>>
    /\ exc = NoExc
    /\ call = NoCall
    /\ result = "idle"
    /\ pre = NoSnapshot
    /\ log = <<>>
    /\ nops = 0
    /\ touched = {}
    /\ block = NoBlock
    /\ limit = MaxOps

\* The instances and names the calls of Spec are made on: two instances of
\* T, its observable x and the undeclared name z.
SpecInstances == {"a", "b"}
SpecNames == {"x", "z"}

Next ==
    \/ \E cb \in Callbacks, i \in SpecInstances, n \in SpecNames : subscribe(cb, i, n)
    \/ \E cb \in Callbacks, i \in SpecInstances, n \in SpecNames : unsubscribe(cb, i, n)
    \/ \E i \in SpecInstances, n \in SpecNames, v \in Values : set(i, n, v)
    \/ \E i \in SpecInstances, n \in SpecNames : observable_notify(i, n)
    \/ \E i \in SpecInstances, n \in SpecNames : delete(i, n)
    \/ invoke_observer
    \/ reject_observer
    \/ end_of_loop
    \/ callback_returns
    \/ callback_raises
    \/ callback_propagates
    \/ callback_handles
    \/ returns

Spec == Init /\ [][Next]_vars

\* The calls of SpecScope are made on one instance: they are the calls of
\* Spec and the with blocks of Observable._observable, whose bodies make
\* calls of their own.
ScopeInstances == {"a"}

NextScope ==
    \/ \E i \in ScopeInstances, n \in SpecNames : observable_enter(i, n)
    \/ \E ok \in BOOLEAN : observable_exit(ok)
    \/ \E cb \in Callbacks, i \in ScopeInstances, n \in SpecNames : subscribe(cb, i, n)
    \/ \E cb \in Callbacks, i \in ScopeInstances, n \in SpecNames : unsubscribe(cb, i, n)
    \/ \E i \in ScopeInstances, n \in SpecNames, v \in Values : set(i, n, v)
    \/ \E i \in ScopeInstances, n \in SpecNames : observable_notify(i, n)
    \/ \E i \in ScopeInstances, n \in SpecNames : delete(i, n)
    \/ invoke_observer
    \/ reject_observer
    \/ end_of_loop
    \/ callback_returns
    \/ callback_raises
    \/ callback_propagates
    \/ callback_handles
    \/ returns

SpecScope == Init /\ [][NextScope]_vars

\* SpecDeep follows one attribute of one instance further down: its callbacks
\* may make DeepOps calls in a top-level call, assignments and subscriptions
\* only, and they handle the errors of the calls they make.
DeepOps == MaxOps + 2

InitDeep ==
    /\ subscribers = [n \in Observables |-> <<>>]
    /\ recursions = [n \in Observables |-> <<>>]
    /\ value = [i \in Instances |-> [n \in Observables |-> "v1"]]
    /\ stack = <<>>
    /\ exc = NoExc
    /\ call = NoCall
    /\ result = "idle"
    /\ pre = NoSnapshot
    /\ log = <<>>
    /\ nops = 0
    /\ touched = {}
    /\ block = NoBlock
    /\ limit = DeepOps

NextDeep ==
    \/ \E cb \in Callbacks : subscribe(cb, "a", "x")
    \/ \E v \in Values : set("a", "x", v)
    \/ invoke_observer
    \/ reject_observer
    \/ end_of_loop
    \/ callback_returns
    \/ callback_handles
    \/ returns

SpecDeep == InitDeep /\ [][NextDeep]_vars

\* The calls of SpecAttrs are made on the two observables of one instance;
\* the assignments give them a value other than the initial one, and the
\* callbacks raise no errors of their own.
AttrsNames == {"x", "y"}
AttrsValues == {"v2"}

NextAttrs ==
    \/ \E cb \in Callbacks, n \in AttrsNames : subscribe(cb, "a", n)
    \/ \E cb \in Callbacks, n \in AttrsNames : unsubscribe(cb, "a", n)
    \/ \E n \in AttrsNames, v \in AttrsValues : set("a", n, v)
    \/ \E n \in AttrsNames : observable_notify("a", n)
    \/ invoke_observer
    \/ reject_observer
    \/ end_of_loop
    \/ callback_returns
    \/ callback_propagates
    \/ callback_handles
    \/ returns

SpecAttrs == Init /\ [][NextAttrs]_vars

\* The calls of SpecSub are made on an instance of the subclass S, which
\* inherits the observable x of T.
NextSub ==
    \/ \E cb \in Callbacks, n \in SpecNames : subscribe(cb, "s", n)
    \/ \E cb \in Callbacks, n \in SpecNames : unsubscribe(cb, "s", n)
    \/ \E n \in SpecNames, v \in Values : set("s", n, v)
    \/ \E n \in SpecNames : observable_notify("s", n)
    \/ \E n \in SpecNames : delete("s", n)
    \/ invoke_observer
    \/ reject_observer
    \/ end_of_loop
    \/ callback_returns
    \/ callback_raises
    \/ callback_propagates
    \/ callback_handles
    \/ returns

SpecSub == Init /\ [][NextSub]_vars

\* ------------------------------------------------------------------ claims

\* The top-level call is over: `call` says which it was, `result` how it
\* ended, `pre` what the lists and values were when it started.
Done == stack = <<>> /\ call # NoCall /\ result # "running"

\* The invocations of one undisturbed notification cycle over list.
Expected(list, i, n, v) == [k \in 1..Len(list) |-> <<list[k], i, n, v>>]

NoDuplicates(list) ==
    \A j, k \in 1..Len(list) : j # k => list[j] # list[k]

Occurrences(list, cb) == Cardinality({k \in 1..Len(list) : list[k] = cb})

\* list without cb, the other entries in their order.
Without(list, cb) == SelectSeq(list, LAMBDA c : c # cb)

IndexOf(list, cb) == CHOOSE k \in 1..Len(list) : list[k] = cb

\* The invocations made for the observable n.
LogFor(n) == SelectSeq(log, LAMBDA e : e[3] = n)

\* No callback of the top-level call has made a call on the call's own
\* observable: none has touched its value, its subscriber list or its guard.
Untouched == call.name \notin touched

\* The exception that ended the call is the re-entrancy check's.
Rejected == exc.type = "ObservablePropertyError" /\ exc.observer # "-"

\* C1: an assignment made from outside any callback that returns, none of
\* its callbacks having raised or made a call on the attribute, has invoked
\* the callbacks of the attribute's subscriber list as it was when the
\* assignment started: each once, in list order, with (instance, name,
\* assigned value), and nothing else (a callback removed from the list
\* before is not invoked).
C1_NotifiesInOrder ==
    (Done /\ call.op = "set" /\ result = "None" /\ Untouched)
        => LogFor(call.name) = Expected(SubscribersOf(pre.subscribers, call.inst, call.name),
                          call.inst, call.name, call.val)

C1_Witness ==
    /\ Done /\ call.op = "set" /\ result = "None" /\ Untouched
    /\ call.val = "v2"
    /\ pre.subscribers[call.name] = <<"g", "f">>
    /\ log = <<<<"g", call.inst, call.name, "v2">>, <<"f", call.inst, call.name, "v2">>>>

\* C2: subscriptions are per (instance, name): a subscribe or unsubscribe on
\* (a, x) leaves the subscriber list of every other instance's x as it was
\* (so that the callbacks an assignment to x of b invokes, which are those
\* of b's list, are never callbacks subscribed to a alone).
C2_PerInstance ==
    (Done /\ call.op \in {"subscribe", "unsubscribe"} /\ result # "raised")
        => \A j \in Instances \ {call.inst} :
               SubscribersOf(subscribers, j, call.name)
                   = SubscribersOf(pre.subscribers, j, call.name)

\* C3: when a callback running in the notification cycle of (instance, name)
\* assigns to that name of that instance, every step of the nested
\* assignment's loop is its rejection with ObservablePropertyError (no
\* callback is invoked and the loop does not end normally); and an
\* ObservablePropertyError a callback does not handle leaves the assignment
\* that invoked the callback, to its caller.
NestedAssignment ==
    /\ InLoop
    /\ Top.op = "set"
    /\ Len(stack) >= 2
    /\ stack[Len(stack) - 1].kind = "cb"
    /\ stack[Len(stack) - 1].inst = Top.inst
    /\ stack[Len(stack) - 1].name = Top.name

C3_NestedAssignmentRejected ==
    [][/\ NestedAssignment
           => /\ stack' = Pop(stack)
              /\ exc'.type = "ObservablePropertyError"
              /\ log' = log
       /\ (Running /\ exc.type = "ObservablePropertyError" /\ exc' = exc)
           => /\ stack' = Pop(Pop(stack))
              /\ (stack' = <<>> => result' = "raised")]_vars

\* C4: the recursion guard of a name is empty whenever no notification loop
\* of that name is on the stack; and an assignment made from outside any
\* callback, whose callbacks make no call on the attribute, is never
\* rejected by the re-entrancy check, whatever happened before it, and when
\* no callback fails it returns having notified every subscriber.
LoopActive(n) ==
    \E k \in 1..Len(stack) : stack[k].kind = "cycle" /\ stack[k].name = n

C4_GuardEmptyOutsideCycles ==
    /\ \A n \in Observables : ~LoopActive(n) => recursions[n] = <<>>
    /\ (Done /\ call.op = "set" /\ Untouched)
           => /\ ~Rejected
              /\ exc = NoExc
                     => /\ result = "None"
                        /\ Len(LogFor(call.name)) = Len(pre.subscribers[call.name])

\* A cycle just failed on the re-entrancy check, and the guard is empty.
C4_Witness ==
    /\ Done /\ call.op = "set" /\ result = "raised"
    /\ exc.type = "ObservablePropertyError" /\ exc.observer # "-"
    /\ recursions[call.name] = <<>>

\* C5: no callback is twice in a subscriber list; after a subscribe the
\* callback is in the list exactly once, and an assignment whose callbacks
\* make no call on the attribute invokes no callback twice.
C5_AtMostOnce ==
    /\ \A n \in Observables : NoDuplicates(subscribers[n])
    /\ (Done /\ call.op = "subscribe" /\ result = "None")
           => Occurrences(subscribers[call.name], call.cb) = 1
    /\ (Done /\ call.op = "set" /\ Untouched)
           => \A cb \in Callbacks :
                  Cardinality({k \in 1..Len(LogFor(call.name)) :
                                   LogFor(call.name)[k][1] = cb}) <= 1

\* A callback that was subscribed already has been subscribed again.
C5_Witness ==
    /\ Done /\ call.op = "subscribe" /\ result = "None"
    /\ Contains(pre.subscribers[call.name], call.cb)
    /\ Len(subscribers[call.name]) = 2

C8_FailingCallback ==
    /\ (exc # NoExc /\ stack # <<>>) => Top.kind = "cb"
    /\ (Done /\ call.op = "set" /\ exc.type = "CallbackError")
           => /\ result = "raised"
              /\ recursions[call.name] = <<>>
              /\ Untouched
                     => LET list == pre.subscribers[call.name]
                        IN  /\ Contains(list, exc.observer)
                            /\ LogFor(call.name)
                                   = Expected(SubSeq(list, 1, IndexOf(list, exc.observer)),
                                              call.inst, call.name, call.val)
    /\ (call.op = "set" /\ Untouched) => value[call.inst][call.name] = call.val

\* The first of two subscribers failed: the second was not invoked, and the
\* new value is stored.
C8_Witness ==
    /\ Done /\ call.op = "set" /\ exc.type = "CallbackError" /\ Untouched
    /\ Len(pre.subscribers[call.name]) = 2
    /\ Len(log) = 1
    /\ pre.value[call.inst][call.name] # call.val
    /\ value[call.inst][call.name] = call.val

\* C9: deleting an observable attribute that has a deleter and a stored
\* value completes without error, removes the stored value and discards the
\* instance's subscriber list, so that hasattr no longer finds it.
C9_DeleteDiscards ==
    (Done /\ call.op = "delete" /\ HasDeleter(call.name)
          /\ pre.value[call.inst][call.name] # NoValue)
        => /\ result = "None"
           /\ value[call.inst][call.name] = NoValue
           /\ ~hasattr_subscribers(call.inst, call.name)

\* C10: a manual notification of an observable of the instance's class that
\* has a stored value leaves the guard empty; when its callbacks make no
\* call on the attribute it leaves the stored value and the subscriber list
\* as they were and is not rejected by the re-entrancy check; when no
\* callback fails either, it returns after invoking the callbacks of the
\* subscriber list, each once, in order, with the stored value; and when a
\* callback fails, those after it were not invoked.
C10_ManualNotification ==
    (Done /\ call.op = "notify" /\ IsOwnObservable(call.inst, call.name)
          /\ pre.value[call.inst][call.name] # NoValue)
        => LET list == pre.subscribers[call.name]
               current == pre.value[call.inst][call.name]
           IN  /\ recursions[call.name] = <<>>
               /\ Untouched
                      => /\ value[call.inst][call.name] = current
                         /\ subscribers[call.name] = list
                         /\ ~Rejected
               /\ (Untouched /\ exc = NoExc)
                      => /\ result = "None"
                         /\ LogFor(call.name)
                                = Expected(list, call.inst, call.name, current)
               /\ (Untouched /\ exc.type = "CallbackError")
                      => LogFor(call.name)
                             = Expected(SubSeq(list, 1, IndexOf(list, exc.observer)),
                                        call.inst, call.name, current)

C10_Witness ==
    /\ Done /\ call.op = "notify" /\ result = "None" /\ Untouched
    /\ pre.value[call.inst][call.name] = "v2"
    /\ Len(log) = 2
    /\ log[2] = <<"g", call.inst, call.name, "v2">>

\* C11: entering a with block of the scoped helper invokes no callback and
\* starts no cycle; leaving it because its body raised invokes no callback
\* either and lets the body's error through; leaving it normally makes the
\* manual notification once, after the body: with no callback failing or
\* making a call on the attribute, the callbacks of the subscriber list as
\* the body left it were invoked, each once, in order, with the value the
\* body left, and for a name that is not observable the error is raised
\* then, not on entry.
C11_ScopedNotification ==
    /\ call.op = "enter"
           => /\ stack = <<>> /\ log = <<>>
              /\ result = "None" /\ exc = NoExc
              /\ block = [inst |-> call.inst, name |-> call.name]
    /\ call.op = "abort"
           => /\ stack = <<>> /\ log = <<>>
              /\ result = "raised" /\ exc = BodyError
    /\ (Done /\ call.op = "leave" /\ IsOwnObservable(call.inst, call.name)
             /\ pre.value[call.inst][call.name] # NoValue
             /\ Untouched /\ exc = NoExc)
           => /\ result = "None"
              /\ LogFor(call.name)
                     = Expected(pre.subscribers[call.name], call.inst, call.name,
                                pre.value[call.inst][call.name])
    /\ (call.op = "leave" /\ ~IsOwnObservable(call.inst, call.name))
           => /\ stack = <<>> /\ log = <<>>
              /\ result = "raised" /\ exc = NotObservableError(call.name)

C11_Witness ==
    /\ Done /\ call.op = "leave" /\ result = "None" /\ Untouched
    /\ pre.value[call.inst][call.name] = "v2"
    /\ log = <<<<"f", call.inst, call.name, "v2">>, <<"g", call.inst, call.name, "v2">>>>

\* The callbacks being executed for (i, n): the positions of their frames.
Executing(i, n) ==
    {k \in 1..Len(stack) :
        stack[k].kind = "cb" /\ stack[k].inst = i /\ stack[k].name = n}

\* C12: no callback is being executed for an (instance, attribute) pair twice
\* at the same time: an invocation of a callback is not made while an earlier
\* invocation of it for the same pair has not finished, whatever the
\* callbacks do with the errors their nested assignments raise.
C12_NeverInvokedWhileExecuting ==
    \A i \in Instances, n \in Observables :
        \A j, k \in Executing(i, n) : j # k => stack[j].cb # stack[k].cb

\* C13: the guard bounds the nesting of cycles: a callback is in the guard
\* of an attribute while it runs, so of the callbacks there are, each runs
\* for (instance, attribute) at most once at a time, and the calls that have
\* not returned are at most one cycle and one callback for each of them,
\* and the one cycle the guard refuses.
C13_NestingBounded ==
    \A i \in Instances, n \in Observables :
        Cardinality(Executing(i, n)) <= Cardinality(Callbacks)

\* The loop on top of the stack belongs to an assignment made by the callback
\* below it, which is being notified for the same attribute of another
\* instance.
AssignmentToOtherInstance ==
    /\ InLoop
    /\ Top.op = "set"
    /\ Len(stack) >= 2
    /\ stack[Len(stack) - 1].kind = "cb"
    /\ stack[Len(stack) - 1].inst # Top.inst
    /\ stack[Len(stack) - 1].name = Top.name

\* C14: the guard belongs to the (instance, attribute) pair: the steps of an
\* assignment that a callback notified for a.x makes to b.x do not raise
\* the re-entrancy error and leave the guard of a.x as it is.
C14_GuardPerInstance ==
    [][AssignmentToOtherInstance
          => LET caller == stack[Len(stack) - 1]
             IN  /\ exc'.type # "ObservablePropertyError"
                 /\ RecursionsOf(recursions', caller.inst, caller.name)
                        = RecursionsOf(recursions, caller.inst, caller.name)]_vars

\* C15: when the re-entrancy check rejects the assignment a callback makes to
\* the attribute it is being notified for, the error names that callback,
\* whatever its position in the subscriber list.
C15_ErrorNamesOffender ==
    [][(NestedAssignment /\ exc'.type = "ObservablePropertyError")
          => exc'.observer = stack[Len(stack) - 1].cb]_vars

Invocations(n, cb) ==
    Cardinality({k \in 1..Len(LogFor(n)) : LogFor(n)[k][1] = cb})

\* C17: an assignment made from outside any callback, whose callbacks made
\* one call in all, on the attribute, is not rejected by the re-entrancy
\* check when that call changed the subscriber list; and when the call made
\* the list shorter (it was an unsubscribe, so the callbacks of the list at
\* the end were subscribed throughout) and no callback failed, each of them
\* was invoked exactly once.
C17_SubscriptionsChangedInCycle ==
    (Done /\ call.op = "set" /\ call.name \in Observables
          /\ nops = 1 /\ touched = {call.name})
        => LET before == SubscribersOf(pre.subscribers, call.inst, call.name)
               after == SubscribersOf(subscribers, call.inst, call.name)
           IN  /\ after # before => ~Rejected
               /\ (Len(after) < Len(before) /\ exc = NoExc)
                      => \A k \in 1..Len(after) :
                             Invocations(call.name, after[k]) = 1

\* C20: the value of an assignment is stored before the re-entrancy check
\* runs: a nested assignment that the check rejects at once (before any
\* callback of its own cycle ran) has stored its value, the rejection leaves
\* it stored, and the attribute reads as that value and not as the value of
\* the assignment the callback was notified of.
C20_RejectedAssignmentStays ==
    [][(NestedAssignment /\ Top.idx = 0 /\ exc'.type = "ObservablePropertyError")
          => /\ value[Top.inst][Top.name] = Top.val
             /\ value'[Top.inst][Top.name] = Top.val]_vars

\* The callback notified of v1 has assigned v2 and was rejected: the
\* attribute reads v2.
C20_Witness ==
    /\ Running /\ Rejected /\ nops = 1
    /\ Len(stack) = 2
    /\ stack[1].op = "set" /\ stack[1].val = "v1"
    /\ value[Top.inst][Top.name] = "v2"
    /\ exc.name = Top.name

\* C18: two observables n and m of an instance are independent.  While and
\* after an assignment to n or a manual notification of n whose callbacks
\* make no call on m, no callback has been invoked for m, and the stored
\* value, the subscriber list and the guard of m are as they were; when the
\* callbacks make no call at all, the callbacks invoked are subscribers of
\* n, so none that is subscribed to m only.  And an assignment to n whose
\* callbacks made one call, an assignment to m that changed its value, is
\* not rejected by the re-entrancy check, whether or not a callback is
\* subscribed to both.
C18_AttributesIndependent ==
    \A n, m \in Observables :
        (n # m /\ call.op \in {"set", "notify"} /\ call.name = n)
            => /\ m \notin touched
                      => /\ LogFor(m) = <<>>
                         /\ value[call.inst][m] = pre.value[call.inst][m]
                         /\ SubscribersOf(subscribers, call.inst, m)
                                = SubscribersOf(pre.subscribers, call.inst, m)
                         /\ RecursionsOf(recursions, call.inst, m)
                                = RecursionsOf(pre.recursions, call.inst, m)
               /\ touched = {}
                      => \A k \in 1..Len(log) :
                             Contains(SubscribersOf(pre.subscribers, call.inst, n),
                                      log[k][1])
               /\ (Done /\ call.op = "set" /\ nops = 1 /\ touched = {m}
                        /\ value[call.inst][m] # pre.value[call.inst][m])
                      => ~Rejected

\* f is subscribed to x and to y, g to x only; f, notified of the assignment
\* to x, has assigned y and was notified of that, and the assignment to x
\* has returned.
C18_Witness ==
    /\ Done /\ call.op = "set" /\ call.name = "x" /\ result = "None"
    /\ pre.subscribers["x"] = <<"f", "g">>
    /\ pre.subscribers["y"] = <<"f">>
    /\ pre.value[call.inst]["y"] = "v1"
    /\ log = << <<"f", call.inst, "x", "v2">>, <<"f", call.inst, "y", "v2">>,
                <<"g", call.inst, "x", "v2">> >>

\* C19: on an instance whose attribute has a stored value, a manual
\* notification of a name is refused as not observable exactly when a
\* subscribe on the same instance and name is: when the instance has no
\* subscriber list of that name, also for an observable that the instance's
\* class inherits.
C19_NotifyAgreesWithSubscribe ==
    (Done /\ call.op = "notify"
          /\ (call.name \in Observables => pre.value[call.inst][call.name] # NoValue))
        => (exc = NotObservableError(call.name)
                <=> ~hasattr_subscribers(call.inst, call.name))

====
